---- MODULE Spec2Model ----
(***************************************************************************)
(* Model of the content API's POST handler (src/content-api-post.js): one  *)
(* AWS Lambda function that authenticates an upload, validates it, sniffs  *)
(* the image format, normalises the image with sharp and puts it to S3.    *)
(*                                                                         *)
(* JavaScript strings are sequences of tokens (a token is an atomic group  *)
(* of characters); a JavaScript value that may be undefined is a record    *)
(* [def, s].  The handler's suspension points (await fileTypeFromBuffer,   *)
(* sharp's promise, the putObject callback) separate its actions.          *)
(***************************************************************************)
EXTENDS Integers, Sequences, FiniteSets, TLC

VARIABLES
  env,          \* process.env
  pc,           \* where each invocation is: idle, sniff, sharp, put, done, fault
  authGiven,    \* the handler's constants, per invocation
  data,
  decodedImage,
  mimeType,
  path,
  metadata,
  sharpError,   \* the message of the fault the .catch callback received
  putLog,       \* the putObject calls the invocation has issued
  putError,     \* the error the putObject callback was called with
  response,     \* what the handler's promise resolved with
  resolveCalls, \* how many times resolve() was called
  stages        \* the stages of the pipeline the invocation has entered

vars == <<env, pc, authGiven, data, decodedImage, mimeType, path, metadata,
          sharpError, putLog, putError, response, resolveCalls, stages>>

-----------------------------------------------------------------------------
(* Bounds of the model *)

\* longest Authorization header value, in tokens
MaxAuthLen == 2
\* longest base64 text of the image, in base64 groups
MaxBodyLen == 1

-----------------------------------------------------------------------------
(* JavaScript values *)

Undefined == [def |-> FALSE, s |-> <<>>]
Str(seq) == [def |-> TRUE, s |-> seq]

\* if (v) / !v on a string-or-undefined value
Truthy(v) == v.def /\ v.s # <<>>

\* `${v}` in a template literal
ToStr(v) == IF v.def THEN v.s ELSE <<"undefined">>

SeqsUpTo(S, n) == UNION {[1..k -> S] : k \in 0..n}

Includes(s, tok) == \E k \in 1..Len(s) : s[k] = tok

\* String.prototype.replace(tok, ''): removes the first occurrence only
RECURSIVE Replace(_, _)
Replace(s, tok) ==
  IF s = <<>> THEN <<>>
  ELSE IF Head(s) = tok THEN Tail(s)
  ELSE <<Head(s)>> \o Replace(Tail(s), tok)

Q == "\""

\* JSON.stringify of a string's characters (without the enclosing quotes)
JsonEscape(s) == [k \in 1..Len(s) |-> IF s[k] = Q THEN "\\\"" ELSE s[k]]

\* JSON.stringify({key: value}) for one string-valued key
JsonObject1(key, value) ==
  <<"{", Q, key, Q, ":", Q>> \o JsonEscape(value) \o <<Q, "}">>

\* JSON.stringify(metadata): metadata is the sequence of <<key, value>> pairs
\* in insertion order
RECURSIVE JsonMembers(_)
JsonMembers(m) ==
  IF m = <<>> THEN <<>>
  ELSE <<Q, m[1][1], Q, ":", Q>> \o JsonEscape(m[1][2]) \o <<Q>>
       \o (IF Len(m) > 1 THEN <<",">> ELSE <<>>) \o JsonMembers(Tail(m))

JsonStringify(m) == <<"{">> \o JsonMembers(m) \o <<"}">>

-----------------------------------------------------------------------------
(* fail() and metadataEscape() *)

JsonHeaders == ("Content-Type" :> "application/json")

NoResponse == [statusCode |-> 0, body |-> <<>>, isBase64Encoded |-> FALSE,
               headers |-> <<>>]

fail(message, code) ==
  [statusCode |-> code,
   body |-> JsonObject1("error", message),
   isBase64Encoded |-> FALSE,
   headers |-> JsonHeaders]

LoneSurrogate == "\\uD800"

\* encodeURIComponent of one character group
EncodeToken(c) ==
  CASE c = " " -> "%20"
    [] c = "/" -> "%2F"
    [] c = "%" -> "%25"
    [] OTHER -> c

\* encodeURIComponent throws URIError on a lone surrogate
EscapeThrows(input) == Includes(input, LoneSurrogate)

metadataEscape(input) == [k \in 1..Len(input) |-> EncodeToken(input[k])]

-----------------------------------------------------------------------------
(* Inputs *)

Bearer == "Bearer "
AuthTokens == {Bearer, "k", "x"}
AuthValues == {Undefined} \cup {Str(s) : s \in SeqsUpTo(AuthTokens, MaxAuthLen)}

\* values of process.env entries
AccessKeys == {Undefined, Str(<<"k">>)}
Buckets == {Undefined, Str(<<"bkt">>)}
BaseUris == {Undefined, Str(<<"https://img.example">>)}

\* base64 groups: of the PNG signature, of the JPEG signature, of plain
\* text, and a character outside the base64 alphabet
B64Png == "iVBORw0KGgo="
B64Jpeg == "/9j/"
B64Text == "aGVsbG8="
B64Invalid == "!"
Base64Groups == {B64Png, B64Jpeg, B64Text, B64Invalid}

BodyValues == {Undefined} \cup {Str(s) : s \in SeqsUpTo(Base64Groups, MaxBodyLen)}
\* a field that is absent, the empty string, or a record id
IdValues(v) == {Undefined, Str(<<>>), Str(<<v>>)}
\* a field that is absent or a record id
OptValues(v) == {Undefined, Str(<<v>>)}
ContentTypeValues == {Undefined, Str(<<"image", "/", "png">>)}
NameValues == {Undefined, Str(<<>>), Str(<<"my", " ", "pic">>), Str(<<LoneSurrogate>>)}

NoData ==
  [body |-> Undefined, accountId |-> Undefined, championFundId |-> Undefined,
   type |-> Undefined, ccampaignId |-> Undefined,
   contentDocumentId |-> Undefined, contentType |-> Undefined,
   contentVersionId |-> Undefined, name |-> Undefined, userId |-> Undefined]

\* the objects JSON.parse(event.body) can return
DataValues ==
  [body : BodyValues, accountId : IdValues("001xx"),
   championFundId : IdValues("a0Bxx"), type : IdValues("photo"),
   ccampaignId : IdValues("a05xx"), contentDocumentId : IdValues("069xx"),
   contentType : ContentTypeValues, contentVersionId : OptValues("068xx"),
   name : NameValues, userId : OptValues("005xx")]

Uuids == {"3f2a", "9c1b"}

\* event.body: a JSON text that parses to an object, or one JSON.parse rejects
Malformed == [wellFormed |-> FALSE, value |-> NoData]
EventBodies == {Malformed} \cup {[wellFormed |-> TRUE, value |-> d] : d \in DataValues}

\* fragments of the message of a rejected sharp promise
SosMsg == "VipsJpeg: Invalid SOS parameters for sequential JPEG"
PrematureMsg == "VipsJpeg: Premature end of input file"
UnsupportedMsg == "Input buffer contains unsupported image format"
OtherMsg == "VipsJpeg: out of memory"
MsgFragments == {SosMsg, PrematureMsg, UnsupportedMsg, OtherMsg}
\* a fragment alone, or after the name of the operation that failed
SharpMessages ==
  {<<f>> : f \in MsgFragments}
    \cup {<<"toBuffer: ", f>> : f \in MsgFragments \ {OtherMsg}}

\* the error argument of the putObject callback: null, or an Error
PutErrors == {Undefined, Str(<<"AccessDenied: Access Denied">>)}

Invocations == {1}

-----------------------------------------------------------------------------
(* The handler's steps, as functions of what it has read *)

\* a check that forgets ACCESS_KEY
ConfigMissingBucketOnly(e) == ~Truthy(e.S3_BUCKET)

\* line 42
ConfigMissing(e) == ~Truthy(e.ACCESS_KEY) \/ ~Truthy(e.S3_BUCKET)

\* line 47, for a header that is a string
NotAuthorised(auth, e) == Replace(auth.s, Bearer) # e.ACCESS_KEY.s

\* the bytes one base64 group decodes to
DecodeGroup(g) ==
  CASE g = B64Png -> <<"\\x89PNG\\r\\n\\x1a\\n">>
    [] g = B64Jpeg -> <<"\\xFF\\xD8\\xFF">>
    [] g = B64Text -> <<"hello">>
    [] OTHER -> <<>>

\* Buffer.from(text, 'base64'): characters outside the alphabet give no bytes
RECURSIVE Base64Decode(_)
Base64Decode(text) ==
  IF text = <<>> THEN <<>>
  ELSE DecodeGroup(Head(text)) \o Base64Decode(Tail(text))

\* !decodedImage: a Buffer is an object, and every object is truthy
BufferFalsy(img) == FALSE

\* line 54
MissingMetadata(d, img) ==
  BufferFalsy(img) \/ (~Truthy(d.accountId) /\ ~Truthy(d.championFundId))
    \/ ~Truthy(d.type)

\* the narrower rule: only championFundId with ccampaignId conflicts
IdMismatchCampaignOnly(d) ==
  Truthy(d.championFundId) /\ Truthy(d.ccampaignId)

\* line 60
IdMismatch(d) ==
  Truthy(d.championFundId) /\ (Truthy(d.accountId) \/ Truthy(d.ccampaignId))

NoType == [found |-> FALSE, ext |-> "", mime |-> ""]

\* fileTypeFromBuffer: the signature the bytes start with, or undefined
fileTypeFromBuffer(img) ==
  IF img = <<>> THEN NoType
  ELSE CASE img[1] = "\\x89PNG\\r\\n\\x1a\\n" ->
              [found |-> TRUE, ext |-> "png", mime |-> "image/png"]
         [] img[1] = "\\xFF\\xD8\\xFF" ->
              [found |-> TRUE, ext |-> "jpg", mime |-> "image/jpeg"]
         [] OTHER -> NoType

\* the path always under accountId
PathAccountOnly(d, uuid, mime) ==
  ToStr(d.accountId) \o <<"/">> \o ToStr(d.type) \o <<"/">>
    \o <<uuid, ".", mime.ext>>

\* lines 84-86
Path(d, uuid, mime) ==
  LET generatedName == <<uuid, ".", mime.ext>>
      salesforcePathId == IF Truthy(d.accountId) THEN d.accountId
                          ELSE d.championFundId
  IN ToStr(salesforcePathId) \o <<"/">> \o ToStr(d.type) \o <<"/">>
       \o generatedName

\* if (field) { metadata[key] = value; }
Assign(key, field, value) ==
  IF Truthy(field) THEN << <<key, value>> >> ELSE <<>>

\* key: field ? field : null
Placeholder(key, field) ==
  << <<key, IF Truthy(field) THEN field.s ELSE <<"null">> >> >>

\* every optional key assigned, with null for an absent field
MetadataWithNulls(d) ==
  Assign("SalesforceAccountId", d.accountId, d.accountId.s)
    \o Assign("SalesforceChampionFundId", d.championFundId, d.championFundId.s)
    \o Placeholder("SalesforceCCampaignId", d.ccampaignId)
    \o Placeholder("SalesforceContentDocumentId", d.contentDocumentId)
    \o Placeholder("SalesforceContentType", d.contentType)
    \o Placeholder("SalesforceContentVersionId", d.contentVersionId)
    \o Placeholder("SalesforceFilename", d.name)
    \o Placeholder("SalesforceUserId", d.userId)

\* lines 87-116
Metadata(d) ==
  Assign("SalesforceAccountId", d.accountId, d.accountId.s)
    \o Assign("SalesforceChampionFundId", d.championFundId, d.championFundId.s)
    \o Assign("SalesforceCCampaignId", d.ccampaignId, d.ccampaignId.s)
    \o Assign("SalesforceContentDocumentId", d.contentDocumentId,
             d.contentDocumentId.s)
    \o Assign("SalesforceContentType", d.contentType,
             metadataEscape(d.contentType.s))
    \o Assign("SalesforceContentVersionId", d.contentVersionId,
             d.contentVersionId.s)
    \o Assign("SalesforceFilename", d.name, metadataEscape(d.name.s))
    \o Assign("SalesforceUserId", d.userId, d.userId.s)

\* lines 106 and 112: a metadataEscape call that throws
MetadataThrows(d) ==
  \/ Truthy(d.contentType) /\ EscapeThrows(d.contentType.s)
  \/ Truthy(d.name) /\ EscapeThrows(d.name.s)

\* the content type the caller declared, when there is one
S3ParamsDeclaredType(e, d, img, mime, key) ==
  [ACL |-> "public-read", Body |-> <<"processed">> \o img,
   Bucket |-> e.S3_BUCKET.s,
   ContentType |-> IF ~Truthy(d.contentType) THEN mime.mime
                   ELSE IF d.contentType.s = <<"image", "/", "png">>
                     THEN "image/png" ELSE "application/octet-stream",
   Key |-> key, Metadata |-> Metadata(d)]

\* lines 118-125
S3Params(e, d, img, mime, key) ==
  [ACL |-> "public-read", Body |-> <<"processed">> \o img,
   Bucket |-> e.S3_BUCKET.s, ContentType |-> mime.mime, Key |-> key,
   Metadata |-> Metadata(d)]

\* the message without the metadata
SaveErrorNoMetadata(error, md) ==
  fail(<<"Save error: ">> \o ToStr(error), 500)

\* line 130
SaveError(error, md) ==
  fail(<<"Save error: ">> \o ToStr(error) \o <<". Metadata: ">>
         \o JsonStringify(md), 500)

\* line 137
Uri(e, key) == ToStr(e.IMAGE_ACCESS_BASE_URI) \o <<"/">> \o key

\* lines 134-143
Success(e, key) ==
  [statusCode |-> 200, body |-> JsonObject1("uri", Uri(e, key)),
   isBase64Encoded |-> FALSE, headers |-> JsonHeaders]

\* a .catch callback that does not know the premature-end fault
CatchWithoutPremature(message) ==
  IF Includes(message, SosMsg)
    THEN fail(<<"Processing error: corrupt JPEG, invalid SOS parameters">>, 400)
  ELSE IF Includes(message, UnsupportedMsg)
    THEN fail(<<"Processing error: unsupported image format">>, 400)
  ELSE fail(<<"Processing error: ">> \o message, 500)

\* lines 147-164: the .catch callback, on the fault's message
Catch(message) ==
  IF Includes(message, SosMsg)
    THEN fail(<<"Processing error: corrupt JPEG, invalid SOS parameters">>, 400)
  ELSE IF Includes(message, PrematureMsg)
    THEN fail(<<"Processing error: corrupt, premature end of input file">>, 400)
  ELSE IF Includes(message, UnsupportedMsg)
    THEN fail(<<"Processing error: unsupported image format">>, 400)
  ELSE fail(<<"Processing error: ">> \o message, 500)

-----------------------------------------------------------------------------
(* The state machine *)

StageOrder == <<"config", "auth", "parse", "decode", "validate", "mutex",
                "sniff", "normalize", "derive", "put">>

Upto(stage) ==
  SubSeq(StageOrder, 1, CHOOSE k \in 1..Len(StageOrder) : StageOrder[k] = stage)

Init ==
  /\ env \in [ACCESS_KEY : AccessKeys, S3_BUCKET : Buckets,
              IMAGE_ACCESS_BASE_URI : BaseUris]
  /\ pc = [i \in Invocations |-> "idle"]
  /\ authGiven = [i \in Invocations |-> Undefined]
  /\ data = [i \in Invocations |-> NoData]
  /\ decodedImage = [i \in Invocations |-> <<>>]
  /\ mimeType = [i \in Invocations |-> NoType]
  /\ path = [i \in Invocations |-> <<>>]
  /\ metadata = [i \in Invocations |-> <<>>]
  /\ sharpError = [i \in Invocations |-> <<>>]
  /\ putLog = [i \in Invocations |-> <<>>]
  /\ putError = [i \in Invocations |-> Undefined]
  /\ response = [i \in Invocations |-> NoResponse]
  /\ resolveCalls = [i \in Invocations |-> 0]
  /\ stages = [i \in Invocations |-> <<>>]

\* a resolve function kept in one module-level variable: the call settles
\* the promise of the last invocation still in flight
ResolveShared(i, r) ==
  LET inFlight == {k \in DOMAIN pc : pc[k] \in {"sniff", "sharp", "put"}}
      j == CHOOSE k \in inFlight : \A m \in inFlight : m <= k
  IN /\ response' = [response EXCEPT ![j] = r]
     /\ resolveCalls' = [resolveCalls EXCEPT ![j] = @ + 1]
     /\ pc' = [pc EXCEPT ![j] = "done"]

\* return resolve(r)
Resolve(i, r) ==
  /\ response' = [response EXCEPT ![i] = r]
  /\ resolveCalls' = [resolveCalls EXCEPT ![i] = @ + 1]
  /\ pc' = [pc EXCEPT ![i] = "done"]

\* an exception leaves the async executor: its own promise rejects, and the
\* promise the handler returned is never settled
Throw(i) ==
  /\ pc' = [pc EXCEPT ![i] = "fault"]
  /\ UNCHANGED <<response, resolveCalls>>

\* lines 40-64: the handler up to its first await, on the event it is given.
\* Its result: where it stops, what it has assigned, and what it resolved with.
HandlerEntry(e, event) ==
  LET a == event.headers.Authorization
      json == event.body
      d == json.value
      img == Base64Decode(d.body.s)
      stop(at, st, a1, d1, img1, r) ==
        [pc |-> at, stages |-> Upto(st), authGiven |-> a1, data |-> d1,
         decodedImage |-> img1, response |-> r]
  IN
  IF ConfigMissing(e) THEN
    stop("done", "config", Undefined, NoData, <<>>,
         fail(<<"Required env vars not configured">>, 500))
  ELSE IF ~a.def THEN
    \* undefined.replace(...) throws TypeError
    stop("fault", "auth", a, NoData, <<>>, NoResponse)
  ELSE IF NotAuthorised(a, e) THEN
    stop("done", "auth", a, NoData, <<>>, fail(<<"Not authorised">>, 401))
  ELSE IF ~json.wellFormed THEN
    \* JSON.parse throws SyntaxError
    stop("fault", "parse", a, NoData, <<>>, NoResponse)
  ELSE IF ~d.body.def THEN
    \* Buffer.from(undefined, 'base64') throws TypeError
    stop("fault", "decode", a, d, <<>>, NoResponse)
  ELSE IF MissingMetadata(d, img) THEN
    stop("done", "validate", a, d, img,
         fail(<<"Missing required metadata">>, 400))
  ELSE IF IdMismatch(d) THEN
    stop("done", "mutex", a, d, img, fail(<<"Id Mismatch">>, 400))
  ELSE stop("sniff", "sniff", a, d, img, NoResponse)

\* the parts of the event the handler reads before it stops
ReadsHeaders(e) == ~ConfigMissing(e)
ReadsBody(e, a) == ~ConfigMissing(e) /\ a.def /\ ~NotAuthorised(a, e)

\* handler(event) for invocation i, up to its first await
Call(i, a, json) ==
  /\ pc[i] = "idle"
  /\ LET o == HandlerEntry(env, [headers |-> [Authorization |-> a], body |-> json])
     IN /\ authGiven' = [authGiven EXCEPT ![i] = o.authGiven]
        /\ data' = [data EXCEPT ![i] = o.data]
        /\ decodedImage' = [decodedImage EXCEPT ![i] = o.decodedImage]
        /\ stages' = [stages EXCEPT ![i] = o.stages]
        /\ pc' = [pc EXCEPT ![i] = o.pc]
        /\ response' = [response EXCEPT ![i] = o.response]
        /\ resolveCalls' = [resolveCalls EXCEPT ![i] =
                              IF o.pc = "done" THEN @ + 1 ELSE @]
  /\ UNCHANGED <<env, mimeType, path, metadata, sharpError, putLog, putError>>

\* The Lambda runtime calls handler(event).  A part of the event that the
\* handler never reads is left out of the event.
Invoke(i) ==
  /\ pc[i] = "idle"
  /\ \E a \in (IF ReadsHeaders(env) THEN AuthValues ELSE {Undefined}) :
     \E json \in (IF ReadsBody(env, a) THEN EventBodies ELSE {Malformed}) :
       Call(i, a, json)

\* lines 64-82: fileTypeFromBuffer's promise settles; the handler resumes and,
\* for a recognised type, starts the sharp pipeline
SniffReturns(i) ==
  /\ pc[i] = "sniff"
  /\ LET mt == fileTypeFromBuffer(decodedImage[i])
     IN /\ mimeType' = [mimeType EXCEPT ![i] = mt]
        /\ IF ~mt.found
             THEN /\ Resolve(i, fail(<<"Unrecognised file type">>, 400))
                  /\ UNCHANGED stages
             ELSE /\ pc' = [pc EXCEPT ![i] = "sharp"]
                  /\ stages' = [stages EXCEPT ![i] = Append(@, "normalize")]
                  /\ UNCHANGED <<response, resolveCalls>>
  /\ UNCHANGED <<env, authGiven, data, decodedImage, path, metadata,
                 sharpError, putLog, putError>>

\* lines 83-128: toBuffer() fulfilled, the .then callback runs with a uuid
\* from uuidv4().  If metadataEscape throws, the promise .then returned
\* rejects and the .catch callback (lines 147-164) runs on that error.
SharpResolves(i, uuid) ==
  /\ pc[i] = "sharp"
  /\ LET d == data[i]
         p == Path(d, uuid, mimeType[i])
     IN /\ path' = [path EXCEPT ![i] = p]
        /\ IF MetadataThrows(d)
             THEN /\ stages' = [stages EXCEPT ![i] = Append(@, "derive")]
                  /\ sharpError' = [sharpError EXCEPT ![i] = <<"URI malformed">>]
                  /\ Resolve(i, Catch(<<"URI malformed">>))
                  /\ UNCHANGED <<metadata, putLog>>
             ELSE /\ stages' = [stages EXCEPT ![i] = @ \o <<"derive", "put">>]
                  /\ metadata' = [metadata EXCEPT ![i] = Metadata(d)]
                  /\ putLog' = [putLog EXCEPT ![i] =
                       Append(@, S3Params(env, d, decodedImage[i], mimeType[i], p))]
                  /\ pc' = [pc EXCEPT ![i] = "put"]
                  /\ UNCHANGED <<sharpError, response, resolveCalls>>
  /\ UNCHANGED <<env, authGiven, data, decodedImage, mimeType, putError>>

\* lines 147-164: toBuffer() rejected, the .catch callback runs
SharpRejects(i, message) ==
  /\ pc[i] = "sharp"
  /\ sharpError' = [sharpError EXCEPT ![i] = message]
  /\ Resolve(i, Catch(message))
  /\ UNCHANGED <<env, authGiven, data, decodedImage, mimeType, path, metadata,
                 putLog, putError, stages>>

\* lines 128-144: the putObject callback
PutCallback(i, error) ==
  /\ pc[i] = "put"
  /\ putError' = [putError EXCEPT ![i] = error]
  /\ IF error.def
       THEN Resolve(i, SaveError(error, metadata[i]))
       ELSE Resolve(i, Success(env, path[i]))
  /\ UNCHANGED <<env, authGiven, data, decodedImage, mimeType, path, metadata,
                 sharpError, putLog, stages>>

Next ==
  \/ \E i \in Invocations : Invoke(i)
  \/ \E i \in Invocations : SniffReturns(i)
  \/ \E i \in Invocations, uuid \in Uuids : SharpResolves(i, uuid)
  \/ \E i \in Invocations, message \in SharpMessages : SharpRejects(i, message)
  \/ \E i \in Invocations, error \in PutErrors : PutCallback(i, error)

Spec == Init /\ [][Next]_vars

-----------------------------------------------------------------------------
(* Two invocations of the handler in one process, in flight together: the *)
(* event loop runs the continuation of either one at each await.          *)

Pair == {1, 2}

PairAuthValues == {Undefined, Str(<<"x">>), Str(<<Bearer, "k">>)}

\* requests that share image bytes and differ in the fields of the caller
PairDataValues ==
  [body : {Str(<<B64Png>>), Str(<<B64Jpeg>>), Str(<<B64Text>>)},
   accountId : OptValues("001xx"), championFundId : OptValues("a0Bxx"),
   type : {Str(<<"photo">>), Str(<<"logo">>)}, ccampaignId : {Undefined},
   contentDocumentId : {Undefined}, contentType : ContentTypeValues,
   contentVersionId : {Undefined},
   name : {Undefined, Str(<<"my", " ", "pic">>)}, userId : {Undefined}]

PairEventBodies ==
  {Malformed} \cup {[wellFormed |-> TRUE, value |-> d] : d \in PairDataValues}

PairMessages == {<<PrematureMsg>>, <<OtherMsg>>}

InitPair ==
  /\ env \in [ACCESS_KEY : {Str(<<"k">>)}, S3_BUCKET : {Str(<<"bkt">>)},
              IMAGE_ACCESS_BASE_URI : BaseUris]
  /\ pc = [i \in Pair |-> "idle"]
  /\ authGiven = [i \in Pair |-> Undefined]
  /\ data = [i \in Pair |-> NoData]
  /\ decodedImage = [i \in Pair |-> <<>>]
  /\ mimeType = [i \in Pair |-> NoType]
  /\ path = [i \in Pair |-> <<>>]
  /\ metadata = [i \in Pair |-> <<>>]
  /\ sharpError = [i \in Pair |-> <<>>]
  /\ putLog = [i \in Pair |-> <<>>]
  /\ putError = [i \in Pair |-> Undefined]
  /\ response = [i \in Pair |-> NoResponse]
  /\ resolveCalls = [i \in Pair |-> 0]
  /\ stages = [i \in Pair |-> <<>>]

InvokePair(i) ==
  /\ pc[i] = "idle"
  /\ \E a \in PairAuthValues, json \in PairEventBodies : Call(i, a, json)

NextPair ==
  \/ \E i \in Pair : InvokePair(i)
  \/ \E i \in Pair : SniffReturns(i)
  \/ \E i \in Pair, uuid \in Uuids : SharpResolves(i, uuid)
  \/ \E i \in Pair, message \in PairMessages : SharpRejects(i, message)
  \/ \E i \in Pair, error \in PutErrors : PutCallback(i, error)

SpecPair == InitPair /\ [][NextPair]_vars

TypeOK ==
  \A i \in DOMAIN pc :
    /\ pc[i] \in {"idle", "sniff", "sharp", "put", "done", "fault"}
    /\ resolveCalls[i] \in 0..1

-----------------------------------------------------------------------------
(* Vocabulary of the properties *)

Last(s) == s[Len(s)]
Entered(i, stage) == Includes(stages[i], stage)
Finished(i) == pc[i] \in {"done", "fault"}
Configured == Truthy(env.ACCESS_KEY) /\ Truthy(env.S3_BUCKET)

\* the header value without a leading 'Bearer '
StripLeadingBearer(s) == IF s # <<>> /\ s[1] = Bearer THEN Tail(s) ELSE s

\* the request carries the configured secret
Authorized(i) ==
  authGiven[i].def /\ StripLeadingBearer(authGiven[i].s) = env.ACCESS_KEY.s

\* the handler has parsed the request body into data[i]
Parsed(i) == Entered(i, "decode")

ErrorBody(text) == <<"{", Q, "error", Q, ":", Q, text, Q, "}">>

Structured(r) ==
  /\ r.statusCode \in {200, 400, 401, 500}
  /\ r.headers = JsonHeaders
  /\ Len(r.body) > 6
  /\ r.body[1] = "{" /\ r.body[3] \in {"error", "uri"}

\* s contains sub as a contiguous part
Contains(s, sub) ==
  \E k \in 0..(Len(s) - Len(sub)) : SubSeq(s, k + 1, k + Len(sub)) = sub

-----------------------------------------------------------------------------
\* C1: every invocation ends with exactly one structured response: no
\* exception escapes the handler (its promise is never left unsettled), and
\* an invocation that has ended has resolved once, with a response of the
\* shape {statusCode, body, headers}.
C1_EveryInvocationResponds ==
  \A i \in DOMAIN pc :
    /\ pc[i] # "fault"
    /\ pc[i] = "done" => resolveCalls[i] = 1 /\ Structured(response[i])

\* C2: an authorized request under complete configuration that lacks both
\* accountId and championFundId, or lacks type, or whose body decodes to no
\* bytes, or whose JSON is malformed, ends with 400 'Missing required
\* metadata'.
C2_MalformedJson(i) == pc[i] = "fault" /\ Last(stages[i]) = "parse"

C2_LacksRequired(i) ==
  /\ Parsed(i)
  /\ \/ ~Truthy(data[i].accountId) /\ ~Truthy(data[i].championFundId)
     \/ ~Truthy(data[i].type)
     \/ ~data[i].body.def
     \/ Base64Decode(data[i].body.s) = <<>>

C2_MissingMetadataIs400 ==
  \A i \in DOMAIN pc :
    Configured /\ Authorized(i) /\ Finished(i)
      /\ (C2_MalformedJson(i) \/ C2_LacksRequired(i))
    => /\ pc[i] = "done"
       /\ response[i].statusCode = 400
       /\ response[i].body = ErrorBody("Missing required metadata")

\* C3: an authorized request that passes the required-field checks and has
\* championFundId together with accountId or with ccampaignId ends with
\* status 400, body {"error":"Id Mismatch"}, and no object is stored.
C3_Conflict(i) ==
  /\ Truthy(data[i].championFundId)
  /\ Truthy(data[i].accountId) \/ Truthy(data[i].ccampaignId)

C3_IdMismatchIs400 ==
  \A i \in DOMAIN pc :
    Entered(i, "mutex") /\ C3_Conflict(i)
    => /\ pc[i] = "done"
       /\ response[i].statusCode = 400
       /\ response[i].body = ErrorBody("Id Mismatch")
       /\ putLog[i] = <<>>

C3_Witness ==
  \E i \in DOMAIN pc :
    /\ Authorized(i) /\ Entered(i, "mutex")
    /\ Truthy(data[i].championFundId) /\ Truthy(data[i].accountId)
    /\ ~Truthy(data[i].ccampaignId)
    /\ fileTypeFromBuffer(decodedImage[i]).found
    /\ response[i].body = ErrorBody("Id Mismatch")

\* C4: with ACCESS_KEY and S3_BUCKET configured, a request whose
\* Authorization value without a leading 'Bearer ' differs from ACCESS_KEY,
\* or whose Authorization header is absent, ends with status 401 and body
\* {"error":"Not authorised"}.
C4_UnauthorizedIs401 ==
  \A i \in DOMAIN pc :
    Configured /\ pc[i] # "idle" /\ ~Authorized(i)
    => /\ pc[i] = "done"
       /\ response[i].statusCode = 401
       /\ response[i].body = ErrorBody("Not authorised")

\* C5: the stages run in the fixed order; the response reports the stage
\* that failed and no later stage has run; a missing ACCESS_KEY gives 500
\* with nothing of the request read; no putObject call has been issued by an
\* invocation that ends in 401, 400 or a processing error.
IsPrefix(s, t) == Len(s) <= Len(t) /\ SubSeq(t, 1, Len(s)) = s

ProcessingErrors ==
  {"Processing error: corrupt JPEG, invalid SOS parameters",
   "Processing error: corrupt, premature end of input file",
   "Processing error: unsupported image format",
   "Processing error: "}

\* the stages a response can be the report of
ReportedStages(r) ==
  IF r.statusCode = 200 THEN {"put"}
  ELSE CASE r.body[7] = "Required env vars not configured" -> {"config"}
         [] r.body[7] = "Not authorised" -> {"auth"}
         [] r.body[7] = "Missing required metadata" -> {"validate"}
         [] r.body[7] = "Id Mismatch" -> {"mutex"}
         [] r.body[7] = "Unrecognised file type" -> {"sniff"}
         [] r.body[7] \in ProcessingErrors -> {"normalize", "derive"}
         [] r.body[7] = "Save error: " -> {"put"}
         [] OTHER -> {}

C5_StagesInOrder ==
  \A i \in DOMAIN pc :
    /\ IsPrefix(stages[i], StageOrder)
    /\ pc[i] = "done" => Last(stages[i]) \in ReportedStages(response[i])
    /\ pc[i] = "fault" => putLog[i] = <<>>
    /\ pc[i] # "idle" /\ ~Truthy(env.ACCESS_KEY)
       => /\ pc[i] = "done"
          /\ response[i].statusCode = 500
          /\ response[i].body = ErrorBody("Required env vars not configured")
          /\ stages[i] = <<"config">>
          /\ authGiven[i] = Undefined /\ data[i] = NoData
    /\ pc[i] = "done"
         /\ (response[i].statusCode \in {400, 401}
               \/ response[i].body[7] \in ProcessingErrors)
       => putLog[i] = <<>>
    /\ putLog[i] # <<>> => stages[i] = StageOrder

C5_Witness ==
  \E i \in DOMAIN pc :
    /\ ~Truthy(env.ACCESS_KEY) /\ Truthy(env.S3_BUCKET)
    /\ pc[i] = "done" /\ response[i].statusCode = 500

\* C6: an invocation issues at most one putObject call; if the call fails
\* the invocation ends with 500 and a message that includes the metadata of
\* the call; a 200 is a response to a call that completed without error.
C6_PutFailed(i) ==
  pc[i] = "done" /\ Last(stages[i]) = "put" /\ putError[i].def

C6_SinglePut ==
  \A i \in DOMAIN pc :
    /\ Len(putLog[i]) <= 1
    /\ C6_PutFailed(i)
       => /\ Len(putLog[i]) = 1
          /\ response[i].statusCode = 500
          /\ response[i].body[7] = "Save error: "
          /\ Contains(response[i].body,
                      JsonEscape(JsonStringify(putLog[i][1].Metadata)))
    /\ response[i].statusCode = 200
       => /\ pc[i] = "done" /\ Len(putLog[i]) = 1
          /\ Last(stages[i]) = "put" /\ ~putError[i].def

C6_Witness ==
  \E i \in DOMAIN pc :
    C6_PutFailed(i) /\ Len(putLog[i][1].Metadata) > 2

\* C7: on success the uri is IMAGE_ACCESS_BASE_URI, '/' and the key that was
\* put; with IMAGE_ACCESS_BASE_URI not configured it is the URL of the bucket
\* in its region followed by the key.
C7_BucketUrl == <<"https://">> \o env.S3_BUCKET.s \o <<".s3.eu-west-2.amazonaws.com">>

C7_UriFromBaseOrBucket ==
  \A i \in DOMAIN pc :
    pc[i] = "done" /\ response[i].statusCode = 200
    => response[i].body =
         JsonObject1("uri",
           (IF env.IMAGE_ACCESS_BASE_URI.def THEN env.IMAGE_ACCESS_BASE_URI.s
            ELSE C7_BucketUrl) \o <<"/">> \o putLog[i][1].Key)

\* C8: the metadata of a putObject call has the identity key of whichever of
\* accountId and championFundId was supplied, has each optional key exactly
\* when the request field is present and not empty, and has no null or empty
\* value.
C8_IdentityKeys ==
  {<<"SalesforceAccountId", "accountId">>,
   <<"SalesforceChampionFundId", "championFundId">>}

C8_OptionalKeys ==
  {<<"SalesforceCCampaignId", "ccampaignId">>,
   <<"SalesforceContentDocumentId", "contentDocumentId">>,
   <<"SalesforceContentType", "contentType">>,
   <<"SalesforceContentVersionId", "contentVersionId">>,
   <<"SalesforceFilename", "name">>,
   <<"SalesforceUserId", "userId">>}

C8_Has(md, key) == \E k \in 1..Len(md) : md[k][1] = key

C8_MetadataExact ==
  \A i \in DOMAIN pc :
    putLog[i] # <<>> =>
      LET md == putLog[i][1].Metadata
          d == data[i]
      IN /\ \A kf \in C8_IdentityKeys \cup C8_OptionalKeys :
              C8_Has(md, kf[1]) <=> Truthy(d[kf[2]])
         /\ \A kf \in C8_IdentityKeys : \A k \in 1..Len(md) :
              md[k][1] = kf[1] => md[k][2] = d[kf[2]].s
         /\ \E kf \in C8_IdentityKeys : C8_Has(md, kf[1])
         /\ \A k \in 1..Len(md) :
              /\ md[k][2] \notin {<<>>, <<"null">>, <<"undefined">>}
              /\ \A j \in 1..Len(md) : md[j][1] = md[k][1] => j = k

C8_Witness ==
  \E i \in DOMAIN pc :
    /\ putLog[i] # <<>>
    /\ Truthy(data[i].championFundId)
    /\ data[i].contentDocumentId = Str(<<>>)
    /\ ~data[i].userId.def
    /\ Truthy(data[i].name)

\* C9: the key of a putObject call is identity/type/uuid.extension, with
\* identity the accountId if present and else the championFundId, uuid the
\* generated identifier and extension the sniffed one; identity is never
\* empty or undefined.
C9_Identity(d) ==
  IF d.accountId.def /\ d.accountId.s # <<>> THEN d.accountId
  ELSE d.championFundId

C9_KeyShape ==
  \A i \in DOMAIN pc :
    putLog[i] # <<>> =>
      LET d == data[i]
          id == C9_Identity(d)
      IN /\ id.def /\ id.s # <<>>
         /\ d.type.def /\ d.type.s # <<>>
         /\ mimeType[i].found /\ mimeType[i].ext \in {"png", "jpg"}
         /\ \E u \in Uuids :
              putLog[i][1].Key =
                id.s \o <<"/">> \o d.type.s \o <<"/", u, ".", mimeType[i].ext>>

C9_Witness ==
  \E i \in DOMAIN pc :
    /\ putLog[i] # <<>>
    /\ ~Truthy(data[i].accountId)
    /\ putLog[i][1].Key = <<"a0Bxx", "/", "photo", "/", "9c1b", ".", "jpg">>

\* C10: when the image transform fails, the status is 400 if the fault's
\* message contains one of the three recognised strings and 500 otherwise.
C10_Recognised(message) ==
  \E k \in 1..Len(message) :
    message[k] \in {SosMsg, PrematureMsg, UnsupportedMsg}

C10_TransformFailed(i) == pc[i] = "done" /\ Last(stages[i]) = "normalize"

C10_CorruptInputIs400 ==
  \A i \in DOMAIN pc :
    C10_TransformFailed(i)
    => /\ sharpError[i] # <<>>
       /\ response[i].statusCode =
            (IF C10_Recognised(sharpError[i]) THEN 400 ELSE 500)

C10_Witness ==
  \E i \in DOMAIN pc :
    /\ C10_TransformFailed(i)
    /\ sharpError[i] = <<"toBuffer: ", PrematureMsg>>
    /\ response[i].statusCode = 400

\* C11: the content type and the extension of the stored object depend on
\* the decoded bytes only: two requests with the same bytes are stored with
\* the same ContentType and the same extension whatever their contentType,
\* type and name; bytes with no known signature that reach the sniffer end
\* with 400 'Unrecognised file type' whatever those fields are.
C11_Signatures == {"\\x89PNG\\r\\n\\x1a\\n", "\\xFF\\xD8\\xFF"}

C11_NoSignature(bytes) == bytes = <<>> \/ bytes[1] \notin C11_Signatures

C11_Sniffed(i) == Entered(i, "sniff") /\ pc[i] # "sniff"

C11_Extension(i) == Last(putLog[i][1].Key)

C11_TypeFromBytesOnly ==
  /\ \A i, j \in DOMAIN pc :
       putLog[i] # <<>> /\ putLog[j] # <<>>
         /\ decodedImage[i] = decodedImage[j]
       => /\ putLog[i][1].ContentType = putLog[j][1].ContentType
          /\ C11_Extension(i) = C11_Extension(j)
  /\ \A i \in DOMAIN pc :
       C11_Sniffed(i) /\ C11_NoSignature(decodedImage[i])
       => /\ pc[i] = "done"
          /\ response[i].statusCode = 400
          /\ response[i].body = ErrorBody("Unrecognised file type")
          /\ putLog[i] = <<>>

C11_Witness ==
  \E i, j \in DOMAIN pc :
    /\ putLog[i] # <<>> /\ putLog[j] # <<>>
    /\ decodedImage[i] = decodedImage[j]
    /\ putLog[i][1].ContentType = "image/jpeg"
    /\ Truthy(data[i].contentType) /\ ~Truthy(data[j].contentType)
    /\ data[i].type # data[j].type
    /\ data[i].name # data[j].name

\* C12: whatever the interleaving of two invocations at their suspension
\* points, the state, the stored object and the response of each are those
\* of a run of that invocation alone on its own event: every step changes
\* the state of one invocation only, and a 200 response carries the key
\* built from the request of the invocation it answers.
C12_Locals(i) ==
  <<pc[i], authGiven[i], data[i], decodedImage[i], mimeType[i], path[i],
    metadata[i], sharpError[i], putLog[i], putError[i], response[i],
    resolveCalls[i], stages[i]>>

\* the event invocation i was called with, as far as the handler read it
C12_Event(i) ==
  [headers |-> [Authorization |-> authGiven[i]],
   body |-> IF Parsed(i) THEN [wellFormed |-> TRUE, value |-> data[i]]
            ELSE Malformed]

\* nothing after the first await has happened in invocation i
C12_NothingLater(i) ==
  /\ mimeType[i] = NoType /\ path[i] = <<>> /\ metadata[i] = <<>>
  /\ sharpError[i] = <<>> /\ putLog[i] = <<>> /\ putError[i] = Undefined

C12_OwnKey(i) == \E u \in Uuids : path[i] = Path(data[i], u, mimeType[i])

C12_OwnPut(i) ==
  /\ C12_OwnKey(i)
  /\ metadata[i] = Metadata(data[i])
  /\ putLog[i] = <<S3Params(env, data[i], decodedImage[i], mimeType[i], path[i])>>
  /\ stages[i] = StageOrder /\ sharpError[i] = <<>>

\* invocation i after its first await, as a run alone leaves it
C12_AfterSniff(i) ==
  LET mt == fileTypeFromBuffer(decodedImage[i])
  IN CASE pc[i] = "sniff" ->
            /\ C12_NothingLater(i) /\ stages[i] = Upto("sniff")
            /\ response[i] = NoResponse /\ resolveCalls[i] = 0
       [] pc[i] = "sharp" ->
            /\ mt.found /\ mimeType[i] = mt /\ stages[i] = Upto("normalize")
            /\ path[i] = <<>> /\ metadata[i] = <<>> /\ sharpError[i] = <<>>
            /\ putLog[i] = <<>> /\ putError[i] = Undefined
            /\ response[i] = NoResponse /\ resolveCalls[i] = 0
       [] pc[i] = "put" ->
            /\ mt.found /\ mimeType[i] = mt /\ C12_OwnPut(i)
            /\ putError[i] = Undefined
            /\ response[i] = NoResponse /\ resolveCalls[i] = 0
       [] pc[i] = "done" ->
            /\ mimeType[i] = mt /\ resolveCalls[i] = 1
            /\ \/ /\ ~mt.found /\ stages[i] = Upto("sniff")
                  /\ path[i] = <<>> /\ metadata[i] = <<>> /\ sharpError[i] = <<>>
                  /\ putLog[i] = <<>> /\ putError[i] = Undefined
                  /\ response[i] = fail(<<"Unrecognised file type">>, 400)
               \/ /\ mt.found /\ stages[i] = Upto("normalize")
                  /\ path[i] = <<>> /\ metadata[i] = <<>>
                  /\ putLog[i] = <<>> /\ putError[i] = Undefined
                  /\ sharpError[i] # <<>>
                  /\ response[i] = Catch(sharpError[i])
               \/ /\ mt.found /\ stages[i] = Upto("derive")
                  /\ MetadataThrows(data[i]) /\ C12_OwnKey(i)
                  /\ metadata[i] = <<>>
                  /\ putLog[i] = <<>> /\ putError[i] = Undefined
                  /\ response[i] = Catch(sharpError[i])
               \/ /\ mt.found /\ C12_OwnPut(i)
                  /\ response[i] =
                       IF putError[i].def
                         THEN SaveError(putError[i], Metadata(data[i]))
                         ELSE Success(env, putLog[i][1].Key)
       [] OTHER -> FALSE

C12_AsIfAlone(i) ==
  IF pc[i] = "idle"
    THEN /\ authGiven[i] = Undefined /\ data[i] = NoData
         /\ decodedImage[i] = <<>> /\ stages[i] = <<>>
         /\ response[i] = NoResponse /\ resolveCalls[i] = 0
         /\ C12_NothingLater(i)
    ELSE LET o == HandlerEntry(env, C12_Event(i))
         IN /\ data[i] = o.data /\ decodedImage[i] = o.decodedImage
            /\ IF o.pc = "sniff" THEN C12_AfterSniff(i)
               ELSE /\ pc[i] = o.pc /\ stages[i] = o.stages
                    /\ response[i] = o.response
                    /\ resolveCalls[i] = (IF o.pc = "done" THEN 1 ELSE 0)
                    /\ C12_NothingLater(i)

C12_OneAtATime ==
  /\ env' = env
  /\ \A i, j \in DOMAIN pc :
       i # j /\ C12_Locals(i)' # C12_Locals(i) => C12_Locals(j)' = C12_Locals(j)

C12_Isolated ==
  /\ [](\A i \in DOMAIN pc : C12_AsIfAlone(i))
  /\ [][C12_OneAtATime]_vars

C12_Witness ==
  \E i, j \in DOMAIN pc :
    /\ pc[i] = "done" /\ response[i].statusCode = 200
    /\ response[i].body = JsonObject1("uri", Uri(env, path[i]))
    /\ pc[j] = "put" /\ path[j] # path[i]
    /\ data[j] # data[i]

====
